---- MODULE Spec2Model ----
(***************************************************************************)
(* Model of src/app.py: a Flask application that initialises the Earth     *)
(* Engine client once at import time and then serves NDVI routes.          *)
(*                                                                         *)
(* Time is counted in hours relative to the UTC midnight of the request's  *)
(* target date (ee.Date(target_date).millis() is the origin, 0).  NDVI is  *)
(* counted in units of 0.05 (UnitsPerOne units make 1.0), so the bloom     *)
(* threshold 0.15 is 3 units and a raw MODIS value r scales to             *)
(* r * UnitsPerOne / 10000.  Python's None is the empty tuple and a        *)
(* defined optional value v is <<v>>.                                      *)
(***************************************************************************)
EXTENDS Integers, Sequences, FiniteSets, TLC

\* ------------------------------------------------------------- bounds
\* images in a filtered collection; concurrent clients; image times (hours
\* from the target: -62 d, -3 d, +12 h, +3 d, +5 d); local UTC offsets of the
\* server (hours); raw reduced NDVI means
MaxImages == 3
Clients == {"c1", "c2"}
Times == {-1488, -72, 12, 72, 120}
TzOffsets == {-5, 0}
RawMeans == {2000, 3500, 5000, 7000}

\* ---------------------------------------------------------- constants
\* hours per day; the +-30 day and 365 day windows; the MODIS scale factor;
\* NDVI units per 1.0; the bloom threshold 0.15 in those units; the target
\* date's UTC midnight
Day == 24
WindowDays == 30
HistoryDays == 365
NdviScale == 10000
UnitsPerOne == 20
threshold == 3
Target == 0

None == <<>>
Some(v) == <<v>>

VARIABLES phase, env, ee_initialized, init_error, credentials_info,
          startup_calls, inflight, exchange

vars == <<phase, env, ee_initialized, init_error, credentials_info,
          startup_calls, inflight, exchange>>

globals == <<ee_initialized, init_error, credentials_info>>

\* ------------------------------------------------------------ startup
\* os.environ.get(name): None ("absent"), the empty string, or a value.
\* private_key_id only feeds the truncated copy kept in credentials_info.
EnvValues == {"absent", "empty", "set"}
Environments ==
    [client_email : EnvValues, private_key : EnvValues,
     project_id : EnvValues, private_key_id : {"set"}]

required_vars == <<"client_email", "private_key", "project_id">>

\* `not env_vars.get(var)` with the empty string taken for a value
FalsyOnlyNone(v) == v = "absent"

\* `not env_vars.get(var)`: None and the empty string are both falsy
Falsy(v) == v \in {"absent", "empty"}

missing_vars(e) == SelectSeq(required_vars, LAMBDA v : Falsy(e[v]))

NoError == [kind |-> "None", vars |-> <<>>]
MissingError(m) == [kind |-> "Missing required environment variables", vars |-> m]
RaisedError(call) == [kind |-> call, vars |-> <<>>]

CredentialsInfo(e) ==
    { <<"client_email", e.client_email>>,
      <<"project_id", e.project_id>>,
      <<"private_key_id",
        IF Falsy(e.private_key_id) THEN "None" ELSE "prefix...">> }

Startup ==
    /\ phase = "boot"
    /\ LET missing == missing_vars(env) IN
       IF missing # <<>>
       THEN /\ init_error' = MissingError(missing)
            /\ ee_initialized' = FALSE
            /\ startup_calls' = <<>>
            /\ UNCHANGED credentials_info
       ELSE \E credOk \in BOOLEAN :
            IF ~credOk
            THEN /\ init_error' = RaisedError("ee.ServiceAccountCredentials")
                 /\ ee_initialized' = FALSE
                 /\ startup_calls' = <<"ee.ServiceAccountCredentials raised">>
                 /\ UNCHANGED credentials_info
            ELSE \E initOk \in BOOLEAN :
                 IF ~initOk
                 THEN /\ init_error' = RaisedError("ee.Initialize")
                      /\ ee_initialized' = FALSE
                      /\ startup_calls' = <<"ee.ServiceAccountCredentials returned",
                                            "ee.Initialize raised">>
                      /\ UNCHANGED credentials_info
                 ELSE /\ ee_initialized' = TRUE
                      /\ credentials_info' = CredentialsInfo(env)
                      /\ startup_calls' = <<"ee.ServiceAccountCredentials returned",
                                            "ee.Initialize returned">>
                      /\ UNCHANGED init_error
    /\ phase' = "serving"
    /\ UNCHANGED <<env, inflight, exchange>>

\* ----------------------------------------------------------- requests
Routes == {"/", "/health", "/debug/full", "/test-ndvi-tile",
           "/get-ndvi-tile-url", "/calculate-ndvi", "/get-ndvi-history"}

NoBody == [json |-> "no_json", geometry |-> "missing", target_date |-> "missing"]

\* One request/response exchange as an observer on the wire sees it, with
\* the external answers the handler consumed.  The observer holds one
\* exchange at a time: a handler completes, and the next request is taken,
\* once the previous exchange has been delivered.  Requests of different
\* clients are in flight together and complete in any order.
Blank ==
    [route |-> "none", status |-> 0, kind |-> "none", error |-> NoError,
     body |-> NoBody, calls |-> <<>>, size |-> None, coll |-> <<>>,
     selected |-> None, offset |-> None, date |-> None,
     days_difference |-> None, ndvi |-> None, means |-> <<>>,
     time_series |-> <<>>, blooms |-> <<>>, info |-> {}]

NoResp == Blank

Receive(c, r) ==
    /\ phase = "serving"
    /\ exchange = NoResp
    /\ inflight[c] = "idle"
    /\ inflight' = [inflight EXCEPT ![c] = r]
    /\ UNCHANGED <<phase, env, globals, startup_calls, exchange>>

\* The handler of client c returns: no handler rebinds a module global.
Return(c) ==
    /\ inflight' = [inflight EXCEPT ![c] = "idle"]
    /\ UNCHANGED <<phase, env, globals, startup_calls>>

Running(c, r) ==
    /\ phase = "serving"
    /\ exchange = NoResp
    /\ inflight[c] = r

index(c) ==
    /\ Running(c, "/")
    /\ exchange' = [Blank EXCEPT !.route = "/", !.status = 200, !.kind = "html"]
    /\ Return(c)

\* ------------------------------------------------- external catalogue
\* filterDate(start, end): start inclusive, end exclusive
InWindow(t, start, end) == start <= t /\ t < end

SeqsUpTo(S, n) == UNION {[1..k -> S] : k \in 0..n}

\* The filtered collection the catalogue answers with: system:time_start of
\* each image, in the catalogue's own order.
Collections(start, end) ==
    SeqsUpTo({t \in Times : InWindow(t, start, end)}, MaxImages)

Abs(x) == IF x < 0 THEN -x ELSE x

\* add_date_diff without .abs()
SignedDateDiff(t, target) == t - target

\* add_date_diff: |system:time_start - target.millis()|
add_date_diff(t, target) == Abs(t - target)

Perms(n) ==
    {p \in [1..n -> 1..n] : \A i, j \in 1..n : i # j => p[i] # p[j]}

\* sort('date_diff'): every ascending order of the collection; how the
\* service orders equal keys is not fixed by the code.
SortOrders(coll, target) ==
    {p \in Perms(Len(coll)) :
        \A i \in 1..(Len(coll) - 1) :
            add_date_diff(coll[p[i]], target) <= add_date_diff(coll[p[i + 1]], target)}

\* `collection_size == 0` written as a sign test
SizeNegative(n) == n < 0

\* `if collection_size == 0`
IsEmptyCollection(n) == n = 0

\* datetime.fromtimestamp(ms / 1000): naive local time, off hours from UTC
fromtimestamp(t, off) == t + off

\* strftime('%Y-%m-%d'): the calendar day, counted from the target's day
DayOf(local) == local \div Day

\* datetime.strptime(target_date, '%Y-%m-%d'): naive midnight of the target
strptime == Target

\* (image_date - target_datetime).days: timedelta.days rounds down
days_diff(image_date, target_datetime) == (image_date - target_datetime) \div Day

\* value / 10000.0, in model units
Scaled(raw) == (raw * UnitsPerOne) \div NdviScale

\* -------------------------------------------------------- request bodies
JsonKinds == {"no_json", "falsy", "object"}
GeometryKinds == {"missing", "empty", "malformed", "polygon"}
DateKinds == {"missing", "empty", "bad", "date"}

Bodies ==
    {[json |-> k, geometry |-> "missing", target_date |-> "missing"] :
        k \in JsonKinds \ {"object"}}
    \cup [json : {"object"}, geometry : GeometryKinds, target_date : DateKinds]

\* request.get_json(): for a request with no parseable JSON body either None
\* (the request is not marked as JSON and Flask answers None) or a raised
\* werkzeug HTTPException (BadRequest for a JSON request whose body is empty
\* or does not parse, UnsupportedMediaType in newer Flask releases);
\* otherwise the parsed value, which may be falsy (null, {}, [], 0, "").
get_json(body) ==
    CASE body.json = "no_json" -> {"None", "raise"}
      [] body.json = "falsy" -> {"falsy"}
      [] OTHER -> {"data"}

\* `not x` for a field of the body
Absent(field) == field \in {"missing", "empty"}

\* `if not ee_initialized` left out of the handler
GuardDropped == FALSE

\* `if not ee_initialized`
not_ee_initialized == ~ee_initialized

Answer(route, body) == [Blank EXCEPT !.route = route, !.body = body]

NotInitialized(route) ==
    [Blank EXCEPT !.route = route, !.status = 500,
                  !.kind = "Earth Engine not initialized", !.error = init_error]

EEError(base, calls) ==
    [base EXCEPT !.status = 500, !.kind = "Earth Engine error", !.calls = calls]

InternalError(base) ==
    [base EXCEPT !.status = 500, !.kind = "Internal server error"]

BadRequest(base, message) ==
    [base EXCEPT !.status = 400, !.kind = message]

\* ------------------------------------------------------------ tile routes
TileStart == Target - WindowDays * Day
TileEnd == Target + WindowDays * Day

\* The body of test_ndvi_tile and of get_ndvi_tile_url from ee.Date(target_date) on.
TileFlow(route, body, date, nodata) ==
    \E sizeOk \in BOOLEAN :
    IF ~sizeOk \/ date = "bad"
    THEN exchange' = EEError(Answer(route, body), <<"size">>)
    ELSE \E coll \in Collections(TileStart, TileEnd) :
         LET got == [Answer(route, body) EXCEPT !.calls = <<"size">>,
                        !.size = Some(Len(coll)), !.coll = coll] IN
         IF IsEmptyCollection(Len(coll))
         THEN exchange' = BadRequest(got, nodata)
         ELSE \E timeOk \in BOOLEAN :
              IF ~timeOk \/ coll = <<>>
              THEN exchange' = EEError(got, <<"size", "time_start">>)
              ELSE \E p \in SortOrders(coll, Target), off \in TzOffsets,
                      mapOk \in BOOLEAN :
                   LET closest == coll[p[1]]
                       image_date == fromtimestamp(closest, off)
                       found == [got EXCEPT !.selected = Some(closest),
                                    !.offset = Some(off),
                                    !.date = Some(DayOf(image_date))] IN
                   IF ~mapOk
                   THEN exchange' = EEError(found, <<"size", "time_start", "getMapId">>)
                   ELSE exchange' = [found EXCEPT !.status = 200, !.kind = "success",
                                        !.calls = <<"size", "time_start", "getMapId">>]

test_ndvi_tile(c) ==
    /\ Running(c, "/test-ndvi-tile")
    /\ IF not_ee_initialized
       THEN exchange' = NotInitialized("/test-ndvi-tile")
       ELSE TileFlow("/test-ndvi-tile", NoBody, "date",
                     "No MODIS data available for test date")
    /\ Return(c)

TileBodies == {b \in Bodies : b.geometry = "missing"}

get_ndvi_tile_url(c) ==
    /\ Running(c, "/get-ndvi-tile-url")
    /\ IF not_ee_initialized
       THEN exchange' = NotInitialized("/get-ndvi-tile-url")
       ELSE \E body \in TileBodies : \E data \in get_json(body) :
            LET base == Answer("/get-ndvi-tile-url", body) IN
            IF data = "raise"
            THEN exchange' = InternalError(base)
            ELSE IF data # "data"
            THEN exchange' = BadRequest(base, "No JSON data provided")
            ELSE IF Absent(body.target_date)
            THEN exchange' = BadRequest(base, "No target date provided")
            ELSE TileFlow("/get-ndvi-tile-url", body, body.target_date,
                          "No MODIS data available for the specified date range")
    /\ Return(c)

\* --------------------------------------------------------- /calculate-ndvi
calculate_ndvi(c) ==
    /\ Running(c, "/calculate-ndvi")
    /\ IF not_ee_initialized
       THEN exchange' = NotInitialized("/calculate-ndvi")
       ELSE \E body \in Bodies : \E data \in get_json(body) :
            LET base == Answer("/calculate-ndvi", body) IN
            IF data = "raise"
            THEN exchange' = InternalError(base)
            ELSE IF data # "data"
            THEN exchange' = BadRequest(base, "No JSON data provided")
            ELSE IF Absent(body.geometry)
            THEN exchange' = BadRequest(base, "No geometry provided")
            ELSE IF Absent(body.target_date)
            THEN exchange' = BadRequest(base, "No target date provided")
            ELSE IF body.geometry = "malformed"
            THEN exchange' = InternalError(base)
            ELSE \E sizeOk \in BOOLEAN :
            IF ~sizeOk \/ body.target_date = "bad"
            THEN exchange' = EEError(base, <<"size">>)
            ELSE \E coll \in Collections(TileStart, TileEnd) :
            LET got == [base EXCEPT !.calls = <<"size">>,
                           !.size = Some(Len(coll)), !.coll = coll] IN
            IF IsEmptyCollection(Len(coll))
            THEN exchange' = BadRequest(got,
                     "No MODIS data available within 30 days of the target date")
            ELSE \E timeOk \in BOOLEAN :
            IF ~timeOk \/ coll = <<>>
            THEN exchange' = EEError(got, <<"size", "time_start">>)
            ELSE \E p \in SortOrders(coll, Target), off \in TzOffsets,
                    reduceOk \in BOOLEAN :
            LET closest == coll[p[1]]
                image_date == fromtimestamp(closest, off)
                found == [got EXCEPT !.selected = Some(closest),
                             !.offset = Some(off),
                             !.date = Some(DayOf(image_date)),
                             !.days_difference = Some(days_diff(image_date, strptime)),
                             !.calls = <<"size", "time_start", "reduceRegion">>] IN
            IF ~reduceOk
            THEN exchange' = EEError(found, <<"size", "time_start", "reduceRegion">>)
            ELSE \E ndvi_value \in {None} \cup {Some(r) : r \in RawMeans} :
            IF ndvi_value = None
            THEN exchange' = [BadRequest(found, "No NDVI data available for this area")
                                EXCEPT !.means = <<None>>]
            ELSE exchange' = [found EXCEPT !.status = 200, !.kind = "success",
                                 !.means = <<ndvi_value>>,
                                 !.ndvi = Some(Scaled(ndvi_value[1]))]
    /\ Return(c)

\* -------------------------------------------------------- /get-ndvi-history
HistoryStart == Target - HistoryDays * Day

\* compute_mean mapped over the collection: one feature per image
compute_mean(t, mean) ==
    [date |-> DayOf(t),
     ndvi |-> IF mean = None THEN None ELSE Some(Scaled(mean[1])),
     timestamp |-> t]

\* ee.Number(mean).divide(10000.0), evaluated by the service for every image
\* when the mapped collection is fetched: the quotient of a defined mean; for
\* an undefined mean the service either leaves the property null or fails
\* the whole computation (Number.divide: Parameter 'left' is required),
\* which getInfo() raises as EEException.
divide(means) ==
    IF \E i \in 1..Len(means) : means[i] = None
    THEN {"null", "raise"}
    ELSE {"value"}

\* the loop over features['features'] that keeps the defined samples
RECURSIVE extract(_)
extract(features) ==
    IF features = <<>> THEN <<>>
    ELSE LET props == Head(features) IN
         (IF props.ndvi # None
          THEN <<[date |-> props.date, ndvi |-> props.ndvi[1],
                  timestamp |-> props.timestamp]>>
          ELSE <<>>) \o extract(Tail(features))

RECURSIVE insert(_, _)
insert(x, s) ==
    IF s = <<>> THEN <<x>>
    ELSE IF Head(s).timestamp <= x.timestamp
         THEN <<Head(s)>> \o insert(x, Tail(s))
         ELSE <<x>> \o s

RECURSIVE sorted_onto(_, _)
sorted_onto(acc, rest) ==
    IF rest = <<>> THEN acc ELSE sorted_onto(insert(Head(rest), acc), Tail(rest))

\* time_series left in the catalogue's order
Unsorted(time_series) == time_series

\* time_series.sort(key=lambda x: x['timestamp']): stable, ascending
sort_by_timestamp(time_series) == sorted_onto(<<>>, time_series)

\* `current - previous >= threshold`
AtLeastThreshold(current, previous) == current - previous >= threshold

\* `if current - previous > threshold`
is_bloom(current, previous) == current - previous > threshold

RECURSIVE blooms_from(_, _)
blooms_from(time_series, i) ==
    IF i > Len(time_series) THEN <<>>
    ELSE LET current == time_series[i].ndvi
             previous == time_series[i - 1].ndvi IN
         (IF is_bloom(current, previous)
          THEN <<[date |-> time_series[i].date, ndvi |-> current,
                  increase |-> current - previous]>>
          ELSE <<>>) \o blooms_from(time_series, i + 1)

\* for i in range(1, len(time_series))
detect_blooms(time_series) == blooms_from(time_series, 2)

get_ndvi_history(c) ==
    /\ Running(c, "/get-ndvi-history")
    /\ IF not_ee_initialized
       THEN exchange' = NotInitialized("/get-ndvi-history")
       ELSE \E body \in Bodies : \E data \in get_json(body) :
            LET base == Answer("/get-ndvi-history", body) IN
            IF data = "raise"
            THEN exchange' = InternalError(base)
            ELSE IF data # "data"
            THEN exchange' = BadRequest(base, "No JSON data provided")
            ELSE IF Absent(body.geometry)
            THEN exchange' = BadRequest(base, "No geometry provided")
            ELSE IF Absent(body.target_date)
            THEN exchange' = BadRequest(base, "No target date provided")
            ELSE IF body.geometry = "malformed"
            THEN exchange' = InternalError(base)
            ELSE \E sizeOk \in BOOLEAN :
            IF ~sizeOk \/ body.target_date = "bad"
            THEN exchange' = EEError(base, <<"size">>)
            ELSE \E coll \in Collections(HistoryStart, Target) :
            LET got == [base EXCEPT !.calls = <<"size">>,
                           !.size = Some(Len(coll)), !.coll = coll] IN
            IF IsEmptyCollection(Len(coll))
            THEN exchange' = BadRequest(got,
                     "No MODIS data available for this area in the past year")
            ELSE \E mapOk \in BOOLEAN :
            IF ~mapOk
            THEN exchange' = EEError(got, <<"size", "map">>)
            ELSE \E means \in [1..Len(coll) -> {None} \cup {Some(r) : r \in RawMeans}] :
                 \E quotient \in divide(means) :
            LET features == [i \in 1..Len(coll) |-> compute_mean(coll[i], means[i])]
                mapped == [got EXCEPT !.calls = <<"size", "map">>, !.means = means] IN
            IF quotient = "raise"
            THEN exchange' = EEError(mapped, <<"size", "map">>)
            ELSE IF Len(features) = 0
            THEN exchange' = BadRequest(mapped,
                     "No NDVI data available for this area in the past year")
            ELSE LET time_series == sort_by_timestamp(extract(features)) IN
                 exchange' = [mapped EXCEPT !.status = 200, !.kind = "success",
                                 !.time_series = time_series,
                                 !.blooms = detect_blooms(time_series)]
    /\ Return(c)

\* ------------------------------------------------------ /health, /debug/full
\* a health check that stores the probe's failure in the module's init_error
health_storing_probe_error(c) ==
    /\ Running(c, "/health")
    /\ \E imageOk \in BOOLEAN :
       /\ exchange' = [Blank EXCEPT !.route = "/health", !.status = 200, !.kind = "ok",
                          !.error = init_error]
       /\ init_error' = IF ee_initialized /\ ~imageOk
                        THEN RaisedError("ee.Image")
                        ELSE init_error
    /\ inflight' = [inflight EXCEPT ![c] = "idle"]
    /\ UNCHANGED <<phase, env, ee_initialized, credentials_info, startup_calls>>

\* a health check whose probes run outside any try: a raising probe is
\* answered by Flask with 500
health_without_try(c) ==
    /\ Running(c, "/health")
    /\ LET base == [Blank EXCEPT !.route = "/health", !.status = 200, !.kind = "ok",
                       !.error = init_error] IN
       IF ~ee_initialized
       THEN exchange' = [base EXCEPT !.info =
                {<<"ee_initialized", "False">>, <<"ee_test_success", "False">>,
                 <<"ee_test_details", "None">>, <<"ee_test_error", "None">>}]
       ELSE \E imageOk \in BOOLEAN, modisOk \in BOOLEAN :
            IF ~imageOk \/ ~modisOk
            THEN exchange' = [base EXCEPT !.status = 500,
                                 !.kind = "Internal Server Error",
                                 !.calls = <<"image">>]
            ELSE exchange' = [base EXCEPT !.calls = <<"image", "size">>, !.info =
                {<<"ee_initialized", "True">>, <<"ee_test_success", "True">>,
                 <<"ee_test_details", "Simple image and MODIS access passed">>,
                 <<"ee_test_error", "None">>}]
    /\ Return(c)

health(c) ==
    /\ Running(c, "/health")
    /\ LET base == [Blank EXCEPT !.route = "/health", !.status = 200, !.kind = "ok",
                       !.error = init_error] IN
       IF ~ee_initialized
       THEN exchange' = [base EXCEPT !.info =
                {<<"ee_initialized", "False">>, <<"ee_test_success", "False">>,
                 <<"ee_test_details", "None">>, <<"ee_test_error", "None">>}]
       ELSE \E imageOk \in BOOLEAN :
            IF ~imageOk
            THEN exchange' = [base EXCEPT !.calls = <<"image">>, !.info =
                {<<"ee_initialized", "True">>, <<"ee_test_success", "False">>,
                 <<"ee_test_details", "Test failed">>, <<"ee_test_error", "raised">>}]
            ELSE \E modisOk \in BOOLEAN :
                 exchange' = [base EXCEPT !.calls = <<"image", "size">>, !.info =
                {<<"ee_initialized", "True">>, <<"ee_test_success", "True">>,
                 <<"ee_test_details",
                   IF modisOk THEN "Simple image and MODIS access passed"
                   ELSE "Simple image passed but MODIS failed">>,
                 <<"ee_test_error", "None">>}]
    /\ Return(c)

debug_full(c) ==
    /\ Running(c, "/debug/full")
    /\ LET base == [Blank EXCEPT !.route = "/debug/full", !.status = 200,
                       !.kind = "debug", !.error = init_error] IN
       IF ~ee_initialized
       THEN exchange' = [base EXCEPT !.info = {<<"initialized", "False">>}]
       ELSE \E sizeOk \in BOOLEAN :
            IF ~sizeOk
            THEN exchange' = [base EXCEPT !.calls = <<"size">>, !.info =
                {<<"initialized", "True">>, <<"basic_image", "True">>,
                 <<"error", "raised">>}]
            ELSE \E nonempty \in BOOLEAN, tileOk \in BOOLEAN :
                 exchange' = [base EXCEPT !.calls = <<"size", "getMapId">>, !.info =
                {<<"initialized", "True">>, <<"basic_image", "True">>,
                 <<"modis_access", IF nonempty THEN "True" ELSE "False">>,
                 <<"tile_generation", IF tileOk THEN "True" ELSE "False">>}]
    /\ Return(c)

Deliver ==
    /\ exchange # NoResp
    /\ exchange' = NoResp
    /\ UNCHANGED <<phase, env, globals, startup_calls, inflight>>

Init ==
    /\ phase = "boot"
    /\ env \in Environments
    /\ ee_initialized = FALSE
    /\ init_error = NoError
    /\ credentials_info = {}
    /\ startup_calls = <<>>
    /\ inflight = [c \in Clients |-> "idle"]
    /\ exchange = NoResp

Next ==
    \/ Startup
    \/ \E c \in Clients, r \in Routes : Receive(c, r)
    \/ \E c \in Clients : index(c)
    \/ \E c \in Clients : test_ndvi_tile(c)
    \/ \E c \in Clients : get_ndvi_tile_url(c)
    \/ \E c \in Clients : calculate_ndvi(c)
    \/ \E c \in Clients : get_ndvi_history(c)
    \/ \E c \in Clients : health(c)
    \/ \E c \in Clients : debug_full(c)
    \/ Deliver

Spec == Init /\ [][Next]_vars

\* ============================================================== claims
SelectRoutes == {"/calculate-ndvi", "/get-ndvi-tile-url", "/test-ndvi-tile"}
CatalogRoutes == {"/get-ndvi-tile-url", "/calculate-ndvi", "/get-ndvi-history"}
DataRoutes == CatalogRoutes \cup {"/test-ndvi-tile"}
NoDataMessages ==
    {"No MODIS data available for the specified date range",
     "No MODIS data available within 30 days of the target date",
     "No MODIS data available for this area in the past year",
     "No NDVI data available for this area",
     "No NDVI data available for this area in the past year"}

Indices(s) == 1..Len(s)

\* C1: on /calculate-ndvi, /get-ndvi-tile-url and /test-ndvi-tile the image
\* selected from a non-empty filtered collection is a member of that
\* collection (which lies inside the +-30 day window) and no image of the
\* collection is closer in time to the target than it is.
C1_ClosestImageSelected ==
    (exchange.route \in SelectRoutes /\ exchange.selected # None) =>
        LET coll == exchange.coll
            t == exchange.selected[1] IN
        /\ coll # <<>>
        /\ \E i \in Indices(coll) : coll[i] = t
        /\ \A i \in Indices(coll) :
              /\ TileStart <= coll[i] /\ coll[i] < TileEnd
              /\ Abs(t - Target) <= Abs(coll[i] - Target)

\* a selection that is not the catalogue's first image, from a collection
\* with images on both sides of the target, one of them strictly farther
C1_Witness ==
    /\ exchange.route = "/calculate-ndvi"
    /\ exchange.selected = Some(-72)
    /\ Len(exchange.coll) = 3
    /\ exchange.coll[1] = 120
    /\ \E i \in Indices(exchange.coll) : exchange.coll[i] = 72

\* C2: in a successful /calculate-ndvi response days_difference is positive
\* when the matched image is later than the target, negative when it is
\* earlier, and -k for an image exactly k whole days before the target.
C2_SignedDayOffset ==
    (exchange.route = "/calculate-ndvi" /\ exchange.status = 200) =>
        LET t == exchange.selected[1]
            d == exchange.days_difference[1] IN
        /\ t > Target => d > 0
        /\ t < Target => d < 0
        /\ (t - Target) % Day = 0 => d * Day = t - Target

\* C3: in a successful /get-ndvi-history response the bloom events are
\* exactly the indices i >= 2 of time_series whose ndvi exceeds the previous
\* sample's by strictly more than 0.15, in order, each with the date and
\* ndvi of sample i and the increase over sample i-1.
C3_BloomIffStrictIncrease ==
    (exchange.route = "/get-ndvi-history" /\ exchange.status = 200) =>
        LET ts == exchange.time_series
            blooms == exchange.blooms
            Q == {i \in 2..Len(ts) : ts[i].ndvi - ts[i - 1].ndvi > threshold} IN
        /\ Len(blooms) = Cardinality(Q)
        /\ \A i \in Q :
              LET k == Cardinality({j \in Q : j <= i}) IN
              /\ blooms[k].date = ts[i].date
              /\ blooms[k].ndvi = ts[i].ndvi
              /\ blooms[k].increase = ts[i].ndvi - ts[i - 1].ndvi

\* three samples: a rise of exactly 0.15 (no event) then a rise above it
C3_Witness ==
    /\ exchange.route = "/get-ndvi-history"
    /\ exchange.status = 200
    /\ Len(exchange.time_series) = 3
    /\ exchange.time_series[2].ndvi - exchange.time_series[1].ndvi = threshold
    /\ exchange.time_series[3].ndvi - exchange.time_series[2].ndvi > threshold
    /\ Len(exchange.blooms) = 1

\* C4: in a successful /get-ndvi-history response time_series is in
\* non-decreasing timestamp order whatever order the catalogue returned the
\* images in, and the bloom events follow that order.
C4_TimeSeriesSorted ==
    (exchange.route = "/get-ndvi-history" /\ exchange.status = 200) =>
        LET ts == exchange.time_series
            blooms == exchange.blooms IN
        /\ \A i \in 1..(Len(ts) - 1) : ts[i].timestamp <= ts[i + 1].timestamp
        /\ \A k \in 1..(Len(blooms) - 1) : blooms[k].date <= blooms[k + 1].date
        /\ \A k \in Indices(blooms) :
              \E i \in 2..Len(ts) :
                  /\ blooms[k].date = ts[i].date
                  /\ blooms[k].increase = ts[i].ndvi - ts[i - 1].ndvi

\* the catalogue returned the images newest first, all defined, with a bloom
C4_Witness ==
    /\ exchange.route = "/get-ndvi-history"
    /\ exchange.status = 200
    /\ exchange.coll = <<-72, -72, -1488>>
    /\ Len(exchange.time_series) = 3
    /\ Len(exchange.blooms) = 2

\* C5: when the catalogue answers that the filtered collection has size 0,
\* /get-ndvi-tile-url, /calculate-ndvi and /get-ndvi-history respond 400
\* with a "no data" message and make no further Earth Engine call.
C5_EmptyCollectionIs400 ==
    (exchange.route \in CatalogRoutes /\ exchange.size = Some(0)) =>
        /\ exchange.status = 400
        /\ exchange.kind \in NoDataMessages
        /\ exchange.calls = <<"size">>
        /\ exchange.selected = None
        /\ exchange.means = <<>>

C5_Witness ==
    /\ exchange.route = "/get-ndvi-history"
    /\ exchange.body.geometry = "polygon"
    /\ exchange.size = Some(0)
    /\ exchange.status = 400

\* C6: with Earth Engine not initialised every data route answers 500 with
\* the captured init_error and calls nothing external, while /, /health and
\* /debug/full answer 200.
C6_UninitializedIs500 ==
    (exchange # NoResp /\ ~ee_initialized) =>
        /\ exchange.route \in DataRoutes =>
              /\ exchange.status = 500
              /\ exchange.kind = "Earth Engine not initialized"
              /\ exchange.error = init_error
              /\ exchange.error # NoError
              /\ exchange.calls = <<>>
        /\ exchange.route \notin DataRoutes =>
              /\ exchange.status = 200
              /\ exchange.calls = <<>>

C6_Witness ==
    /\ ~ee_initialized
    /\ exchange.route = "/get-ndvi-history"
    /\ exchange.status = 500
    /\ exchange.error.kind = "ee.Initialize"

\* C7: with Earth Engine initialised, a request to /calculate-ndvi or
\* /get-ndvi-history with no JSON body, or with geometry or target_date
\* missing or empty, and a request to /get-ndvi-tile-url with no JSON body
\* or target_date missing or empty, is answered 400 before any catalogue call.
C7_ClientErrorIs400 ==
    (/\ ee_initialized
     /\ exchange.route \in CatalogRoutes
     /\ \/ exchange.body.json # "object"
        \/ Absent(exchange.body.target_date)
        \/ /\ exchange.route # "/get-ndvi-tile-url"
           /\ Absent(exchange.body.geometry)) =>
        /\ exchange.status = 400
        /\ exchange.calls = <<>>

\* C8: when the spatial reduction yields no NDVI value the request fails
\* with 400 "no data": on /calculate-ndvi when the chosen image's mean is
\* undefined, on /get-ndvi-history when the collection is non-empty and no
\* image has a defined mean.
C8_NoReducedValueIs400 ==
    /\ (exchange.route = "/calculate-ndvi" /\ exchange.means = <<None>>) =>
          /\ exchange.status = 400
          /\ exchange.kind \in NoDataMessages
    /\ (/\ exchange.route = "/get-ndvi-history"
        /\ exchange.means # <<>>
        /\ \A i \in Indices(exchange.means) : exchange.means[i] = None) =>
          /\ exchange.status = 400
          /\ exchange.kind \in NoDataMessages

\* C9: after startup, if a required credential variable is absent or empty
\* then ee_initialized is false, init_error names exactly the missing
\* variables and neither external call was made; ee_initialized is true
\* exactly when all three are present and both external calls returned.
C9_StartupFailsHard ==
    phase = "serving" =>
        LET required == {required_vars[i] : i \in Indices(required_vars)}
            lacking == {v \in required : env[v] # "set"} IN
        /\ lacking # {} =>
              /\ ~ee_initialized
              /\ init_error.kind = "Missing required environment variables"
              /\ {init_error.vars[i] : i \in Indices(init_error.vars)} = lacking
              /\ startup_calls = <<>>
        /\ ee_initialized <=>
              /\ lacking = {}
              /\ startup_calls = <<"ee.ServiceAccountCredentials returned",
                                   "ee.Initialize returned">>
        /\ ~ee_initialized => init_error # NoError

\* a variable that is set to the empty string, the others present
C9_Witness ==
    /\ phase = "serving"
    /\ env.private_key = "empty"
    /\ env.client_email = "set"
    /\ env.project_id = "set"
    /\ init_error.vars = <<"private_key">>

\* C10: once startup has completed no step of any request handler, in any
\* interleaving of the clients' requests, changes ee_initialized,
\* init_error or credentials_info.
C10_GlobalsFrozen ==
    [][phase = "serving" => UNCHANGED globals]_vars

\* a response produced while the other client's request is still in flight
C10_Witness ==
    /\ ee_initialized
    /\ exchange.route = "/health"
    /\ exchange.calls = <<"image">>
    /\ \E c \in Clients : inflight[c] = "/calculate-ndvi"

Flag(b) == IF b THEN "True" ELSE "False"

\* C11: GET /health always answers 200 with status 'ok' and the current
\* ee_initialized flag: when initialisation failed, and when Earth Engine is
\* initialised but the probe image call or the MODIS collection call raises;
\* the failure is reported in ee_test_error / ee_test_details.
C11_HealthAlways200 ==
    exchange.route = "/health" =>
        /\ exchange.status = 200
        /\ exchange.kind = "ok"
        /\ <<"ee_initialized", Flag(ee_initialized)>> \in exchange.info
        /\ exchange.error = init_error
        /\ ~ee_initialized =>
              /\ exchange.calls = <<>>
              /\ <<"ee_test_success", "False">> \in exchange.info
        /\ (ee_initialized /\ <<"ee_test_success", "False">> \in exchange.info) =>
              /\ <<"ee_test_error", "raised">> \in exchange.info
              /\ <<"ee_test_details", "Test failed">> \in exchange.info

\* Earth Engine initialised, the probe image passed and the MODIS call raised
C11_Witness ==
    /\ ee_initialized
    /\ exchange.route = "/health"
    /\ exchange.status = 200
    /\ exchange.calls = <<"image", "size">>
    /\ <<"ee_test_details", "Simple image passed but MODIS failed">> \in exchange.info

\* C12: on /get-ndvi-history, once the mapped collection has been evaluated,
\* a successful response's time_series holds exactly the images of the
\* filtered collection whose reduced NDVI is defined (each once, with its
\* date, scaled value and timestamp), and a request in which some but not
\* all images are undefined succeeds with the remaining samples.
C12_DefinedSamplesKept ==
    (exchange.route = "/get-ndvi-history" /\ exchange.means # <<>>) =>
        LET coll == exchange.coll
            means == exchange.means
            ts == exchange.time_series
            defined == {i \in Indices(means) : means[i] # None}
            sample(i) == [date |-> coll[i] \div Day,
                          ndvi |-> (means[i][1] * UnitsPerOne) \div NdviScale,
                          timestamp |-> coll[i]] IN
        /\ exchange.status = 200 =>
              /\ Len(ts) = Cardinality(defined)
              /\ \A k \in Indices(ts) :
                    Cardinality({j \in Indices(ts) : ts[j] = ts[k]})
                        = Cardinality({i \in defined : sample(i) = ts[k]})
        /\ (defined # {} /\ defined # Indices(means)) => exchange.status = 200
====
